---- MODULE Spec2Model ----
(***************************************************************************)
(* Model of the SSA-based COSMIC counter (package main, func main and its  *)
(* helpers): local counts per package-member function, entry detection,    *)
(* static DFS (traverseStatic), whole-program BFS over the pointer         *)
(* analysis call graph, and the aggregation into Output.                   *)
(***************************************************************************)
EXTENDS Integers, Sequences, FiniteSets, TLC

(* ------------------------------ bounds --------------------------------- *)
\* number of functions of the analysed (initial) packages; function 1 is main.main
NumFuncs == 3
\* total number of call instructions in the analysed program
MaxSites == 3
\* how many times the tool is run on the same program model
MaxRuns == 2

(* ------------------------- strings (package strings) ------------------- *)
HasSuffix(s, suffix) ==
    /\ Len(s) >= Len(suffix)
    /\ SubSeq(s, Len(s) - Len(suffix) + 1, Len(s)) = suffix

(* ------------------------------ functions ------------------------------ *)
\* nil *ssa.Function
NoFunc == 0

Internal == 1 .. NumFuncs

\* functions of packages that are imported but not among the analysed packages:
\* they have no blocks and are no Members of an analysed ssa.Package
LibTable ==
    << [path |-> "net/http",     name |-> "HandleFunc"],
       [path |-> "os",           name |-> "Open"],
       [path |-> "fmt",          name |-> "Printf"],
       [path |-> "os",           name |-> "Exit"],
       [path |-> "database/sql", name |-> "Query"] >>

LibFuncs == { 0 - i : i \in 1 .. Len(LibTable) }

LibFunc(path, name) ==
    0 - (CHOOSE i \in 1 .. Len(LibTable) :
            LibTable[i].path = path /\ LibTable[i].name = name)

Funcs == Internal \cup LibFuncs

\* fn.Pkg.Pkg.Path()
Path(p, fn) == IF fn \in Internal THEN "main" ELSE LibTable[0 - fn].path

\* fn.Name(): an anonymous function is named after its parent, main$N
Name(p, fn) ==
    IF fn \in LibFuncs THEN LibTable[0 - fn].name
    ELSE IF fn = 1 THEN "main"
    ELSE IF fn \in p.anon THEN "main$" \o ToString(fn - 2)
    ELSE "fn" \o ToString(fn)

\* ssaPkg.Members holds the package-level functions only: anonymous functions
\* (and methods) are not members
Members(p) == Internal \ p.anon

(* ------------------------------ rule tables ---------------------------- *)
entryRegistrations ==
    { <<"net/http", "HandleFunc">>, <<"net/http", "Handle">>,
      <<"github.com/gorilla/mux", "HandleFunc">>, <<"github.com/gorilla/mux", "Handle">> }

readFuncs ==
    { <<"os", "Open">>, <<"os", "ReadFile">>, <<"io/ioutil", "ReadFile">>,
      <<"database/sql", "Query">>, <<"database/sql", "QueryRow">>,
      <<"database/sql", "Scan">> }

writeFuncs ==
    { <<"os", "Create">>, <<"os", "WriteFile">>, <<"io/ioutil", "WriteFile">>,
      <<"database/sql", "Exec">> }

exitFuncs == { <<"os", "Exit">> }

isRegistrationFunction(p, fn) ==
    /\ fn # NoFunc
    /\ \/ <<Path(p, fn), Name(p, fn)>> \in entryRegistrations
       \/ \E r \in entryRegistrations :
            \/ HasSuffix(Path(p, fn) \o "." \o Name(p, fn), r[1] \o "." \o r[2])
            \/ HasSuffix(Name(p, fn), r[2])

matchesRead(p, fn) ==
    /\ fn # NoFunc
    /\ \/ <<Path(p, fn), Name(p, fn)>> \in readFuncs
       \/ Name(p, fn) \in {"Read", "Scan", "Query", "QueryRow"}

matchesWrite(p, fn) ==
    /\ fn # NoFunc
    /\ \/ <<Path(p, fn), Name(p, fn)>> \in writeFuncs
       \/ Name(p, fn) \in {"Write", "WriteString", "Encode", "Respond", "Print", "Printf"}

matchesExit(p, fn) ==
    /\ fn # NoFunc
    /\ \/ <<Path(p, fn), Name(p, fn)>> \in exitFuncs
       \/ (Path(p, fn) = "os" /\ Name(p, fn) = "Exit")

(* ------------------------------ ssa values ----------------------------- *)
OtherValue == [vk |-> "Other", fn |-> NoFunc]

\* the value a function reference compiles to: *ssa.MakeClosure for an
\* anonymous function, *ssa.Function for a package-level one
Ref(anon, fn) ==
    IF fn \in anon THEN [vk |-> "MakeClosure", fn |-> fn]
    ELSE [vk |-> "Function", fn |-> fn]

\* an extraction that knows direct function references only
extractDirectOnly(v) ==
    CASE v.vk = "Function" -> v.fn
      [] OTHER             -> NoFunc

extractFunctionFromValue(v) ==
    CASE v.vk = "MakeClosure" -> v.fn
      [] v.vk = "Function"    -> v.fn
      [] OTHER                -> NoFunc

(* ------------------------------ call sites ----------------------------- *)
\* callee: CallCommon.StaticCallee() (NoFunc for a dynamic call);
\* targets: what the points-to analysis resolves a dynamic call to
StaticCall(kind, fn, args) ==
    [kind |-> kind, callee |-> fn, args |-> args, targets |-> {}]

DynamicCall(targets) ==
    [kind |-> "Call", callee |-> NoFunc, args |-> <<OtherValue>>, targets |-> targets]

(* ------------------------------ program model -------------------------- *)
\* p.body[fn]: the call instructions (Call, Defer, Go) of fn's blocks, in order;
\* p.anon: the anonymous functions of the program
Blocks(p, fn) == IF fn \in Internal THEN p.body[fn] ELSE << >>

\* the programs of the family have main, one more package-level function and
\* anonymous functions (function literals) for the rest
AnonFuncs == { fn \in Internal : fn > 2 }

HandleFuncCall(kind, v) ==
    StaticCall(kind, LibFunc("net/http", "HandleFunc"), <<OtherValue, v>>)

\* call instructions that shape the call graph and the entry set
GraphMenu ==
    [j \in Internal |-> StaticCall("Call", j, << >>)]
    \o [j \in 1 .. NumFuncs - 1 |-> DynamicCall({j + 1})]
    \o [j \in Internal |-> HandleFuncCall("Call", Ref(AnonFuncs, j))]
    \o << StaticCall("Call", LibFunc("database/sql", "Query"), <<OtherValue>>) >>

\* call instructions to classify, around one handler
LibMenu ==
    << StaticCall("Call", LibFunc("os", "Open"), <<OtherValue>>),
       StaticCall("Call", LibFunc("fmt", "Printf"), <<OtherValue>>),
       StaticCall("Defer", LibFunc("os", "Exit"), <<OtherValue>>),
       StaticCall("Call", LibFunc("database/sql", "Query"), <<OtherValue>>),
       HandleFuncCall("Defer", OtherValue),
       HandleFuncCall("Call", Ref(AnonFuncs, 2)),
       HandleFuncCall("Go", Ref(AnonFuncs, NumFuncs)),
       DynamicCall({}) >>

\* placements of n call instructions: nondecreasing sequences of (function, menu item) codes
Placements(n, len) ==
    { s \in [1 .. n -> 1 .. NumFuncs * len] : \A i \in 1 .. n - 1 : s[i] <= s[i + 1] }

BodyOf(s, fn, menu) ==
    LET len == Len(menu)
        mine == SelectSeq(s, LAMBDA k : ((k - 1) \div len) + 1 = fn)
    IN  [i \in 1 .. Len(mine) |-> menu[((mine[i] - 1) % len) + 1]]

ProgramsOver(menu) ==
    { [anon |-> AnonFuncs, body |-> [fn \in Internal |-> BodyOf(s, fn, menu)]] :
        s \in UNION { Placements(n, Len(menu)) : n \in 0 .. MaxSites } }

Programs == ProgramsOver(GraphMenu) \cup ProgramsOver(LibMenu)

Range(s) == { s[i] : i \in DOMAIN s }

(* ------------------------------ local counts --------------------------- *)
\* one pass over fn's call instructions (the body of the scan loop)
ScanCounts(p, fn) ==
    LET sites == Blocks(p, fn)
    IN  [ Entries |-> Cardinality({ i \in DOMAIN sites : isRegistrationFunction(p, sites[i].callee) }),
          Exits   |-> Cardinality({ i \in DOMAIN sites : matchesExit(p, sites[i].callee) }),
          Reads   |-> Cardinality({ i \in DOMAIN sites : matchesRead(p, sites[i].callee) }),
          Writes  |-> Cardinality({ i \in DOMAIN sites : matchesWrite(p, sites[i].callee) }) ]

\* the handlers fn's registration calls add to entryFuncsSet
ScanHandlers(p, fn) ==
    UNION { { extractFunctionFromValue(cs.args[k]) : k \in DOMAIN cs.args } :
            cs \in { c \in Range(Blocks(p, fn)) : isRegistrationFunction(p, c.callee) } }
    \ {NoFunc}

IsMainMain(p, fn) == Path(p, fn) = "main" /\ Name(p, fn) = "main"

ScanLocalCounts(p) == [fn \in Members(p) |-> ScanCounts(p, fn)]

ScanEntries(p) ==
    { fn \in Members(p) : IsMainMain(p, fn) }
    \cup UNION { ScanHandlers(p, fn) : fn \in Members(p) }

(* ------------------------------ call graph ----------------------------- *)
\* the call graph is the one pointer.Analyze builds from main.main: an edge
\* for the static callee of every call instruction of a function it reaches,
\* and an edge for each target it resolves a dynamic call to

\* a set as a slice, in ascending order
SetToSeq(S) ==
    LET RECURSIVE Build(_)
        Build(T) == IF T = {} THEN << >>
                    ELSE LET x == CHOOSE y \in T : \A z \in T : y <= z
                         IN  <<x>> \o Build(T \ {x})
    IN  Build(S)

RECURSIVE Flatten(_)
Flatten(ss) == IF ss = << >> THEN << >> ELSE Head(ss) \o Flatten(Tail(ss))

\* n.Out: the callees of the edges leaving fn's node, in call-site order: the
\* static callee of a call instruction, or what a dynamic call resolves to
NodeOut(p, fn) ==
    Flatten([i \in DOMAIN Blocks(p, fn) |->
        IF Blocks(p, fn)[i].callee # NoFunc THEN << Blocks(p, fn)[i].callee >>
        ELSE SetToSeq(Blocks(p, fn)[i].targets)])

\* the functions that edges reach from S; edges maps a function to its callees
RECURSIVE Closure(_, _)
Closure(edges, S) ==
    LET T == S \cup UNION { edges[fn] : fn \in S }
    IN  IF T = S THEN S ELSE Closure(edges, T)

\* call graph edges of fn's node
GraphEdges(p, fn) == Range(NodeOut(p, fn))

\* cg.Nodes: the functions the analysis reaches from the root main.main
CGNodes(p) == Closure([fn \in Funcs |-> GraphEdges(p, fn)], {1})

(* ------------------------------ state ---------------------------------- *)
VARIABLES
    prog,           \* the program model (ssa packages) the tool is run on
    ptrMode,        \* the -ptr flag of the current run
    pc,             \* "scan", "loop", "static", "bfs", "done"
    localCounts,    \* map[*ssa.Function]Counts
    entryFuncsSet,  \* map[*ssa.Function]bool, as its key set
    remaining,      \* keys the range over entryFuncsSet has not produced yet
    cur,            \* fn of the current iteration
    visited,        \* visited map of the traversal in progress, as its key set
    work,           \* stack (traverseStatic) or queue (BFS) of the traversal
    pr,             \* ProcessReport being built
    out,            \* Output
    run,            \* number of the current run
    hist,           \* history: the finished runs, in order
    adds,           \* history: how often the traversal in progress accumulated each function
    reach           \* history: entry -> functions its traversal visited, this run

vars == << prog, ptrMode, pc, localCounts, entryFuncsSet, remaining, cur, visited,
           work, pr, out, run, hist, adds, reach >>

NoReport ==
    [Name |-> "", Source |-> "", Entries |-> 0, Exits |-> 0, Reads |-> 0, Writes |-> 0,
     Funcs |-> 0]

\* ProcessReport{Name: Sprintf("%s.%s", path, name), Source: fn.String()}
NewReport(p, fn) ==
    [Name |-> Path(p, fn) \o "." \o Name(p, fn), Source |-> Path(p, fn) \o "." \o Name(p, fn),
     Entries |-> 0, Exits |-> 0, Reads |-> 0, Writes |-> 0, Funcs |-> 0]

EmptyOutput ==
    [TotalEntries |-> 0, TotalExits |-> 0, TotalReads |-> 0, TotalWrites |-> 0,
     Processes |-> << >>]

NoAdds == [fn \in Funcs |-> 0]

Fresh ==
    /\ pc = "scan"
    /\ localCounts = << >>
    /\ entryFuncsSet = {}
    /\ remaining = {}
    /\ cur = NoFunc
    /\ visited = {}
    /\ work = << >>
    /\ pr = NoReport
    /\ out = EmptyOutput
    /\ adds = NoAdds
    /\ reach = << >>

Init ==
    /\ prog \in Programs
    /\ ptrMode \in BOOLEAN
    /\ run = 1
    /\ hist = << >>
    /\ Fresh

\* the scan of every member function: local counts, main.main and handlers
Scan ==
    /\ pc = "scan"
    /\ localCounts' = ScanLocalCounts(prog)
    /\ entryFuncsSet' = ScanEntries(prog)
    /\ remaining' = ScanEntries(prog)
    /\ pc' = "loop"
    /\ UNCHANGED << prog, ptrMode, cur, visited, work, pr, out, run, hist, adds, reach >>

\* a lookup that finds a node for every function
HasNodeAlways(p, fn) == TRUE

\* funcToNode[fn] != nil
HasNode(p, fn) == fn \in CGNodes(p)

\* one iteration of for fn := range entryFuncsSet starts: the map yields any
\* key it has not yielded yet
NextEntry ==
    /\ pc = "loop"
    /\ \E fn \in remaining :
        /\ remaining' = remaining \ {fn}
        /\ cur' = fn
        /\ visited' = {}
        /\ work' = <<fn>>
        /\ pr' = NewReport(prog, fn)
        /\ adds' = NoAdds
        /\ pc' = IF ptrMode /\ HasNode(prog, fn) THEN "bfs" ELSE "static"
    /\ UNCHANGED << prog, ptrMode, localCounts, entryFuncsSet, out, run, hist, reach >>

\* pr.X += lc.X when localCounts has the function; pr.Funcs++
Accumulate(r, lc, fn) ==
    IF fn \in DOMAIN lc
    THEN [r EXCEPT !.Entries = @ + lc[fn].Entries, !.Exits = @ + lc[fn].Exits,
                   !.Reads = @ + lc[fn].Reads, !.Writes = @ + lc[fn].Writes,
                   !.Funcs = @ + 1]
    ELSE [r EXCEPT !.Funcs = @ + 1]

\* a loop that would forget the visited map
SkipNilOnly(n, seen) == n = NoFunc

\* if n == nil || visited[n] { continue }
Skip(n, seen) == n = NoFunc \/ n \in seen

\* a static traversal that follows resolved targets too
StaticPushesResolved(p, n, seen) ==
    LET sites == Blocks(p, n)
    IN  SelectSeq(Flatten([i \in DOMAIN sites |->
                     IF sites[i].callee # NoFunc THEN << sites[i].callee >>
                     ELSE SetToSeq(sites[i].targets)]),
                  LAMBDA sc : sc # NoFunc /\ sc \notin seen)

\* the static callees of n's call instructions that are not visited, in order
StaticPushes(p, n, seen) ==
    LET sites == Blocks(p, n)
    IN  SelectSeq([i \in DOMAIN sites |-> sites[i].callee],
                  LAMBDA sc : sc # NoFunc /\ sc \notin seen)

\* one iteration of the loop of traverseStatic
StaticStep ==
    /\ pc = "static"
    /\ work # << >>
    /\ LET n == work[Len(work)]
           rest == SubSeq(work, 1, Len(work) - 1)
       IN  IF Skip(n, visited)
           THEN /\ work' = rest
                /\ UNCHANGED << visited, pr, adds >>
           ELSE /\ visited' = visited \cup {n}
                /\ pr' = Accumulate(pr, localCounts, n)
                /\ adds' = [adds EXCEPT ![n] = @ + 1]
                /\ work' = rest \o StaticPushes(prog, n, visited \cup {n})
    /\ UNCHANGED << prog, ptrMode, pc, localCounts, entryFuncsSet, remaining, cur, out,
                    run, hist, reach >>

\* a BFS that stops at the first edge of a node
BfsPushesFirstOnly(p, n, seen) ==
    LET all == SelectSeq(NodeOut(p, n), LAMBDA callee : callee # NoFunc /\ callee \notin seen)
    IN  IF all = << >> THEN << >> ELSE << all[1] >>

\* the callees of n.Out that are not visited, in order
BfsPushes(p, n, seen) ==
    SelectSeq(NodeOut(p, n), LAMBDA callee : callee # NoFunc /\ callee \notin seen)

\* one iteration of the BFS loop over call graph nodes
BfsStep ==
    /\ pc = "bfs"
    /\ work # << >>
    /\ LET n == Head(work)
           rest == Tail(work)
       IN  IF Skip(n, visited)
           THEN /\ work' = rest
                /\ UNCHANGED << visited, pr, adds >>
           ELSE /\ visited' = visited \cup {n}
                /\ pr' = Accumulate(pr, localCounts, n)
                /\ adds' = [adds EXCEPT ![n] = @ + 1]
                /\ work' = rest \o BfsPushes(prog, n, visited \cup {n})
    /\ UNCHANGED << prog, ptrMode, pc, localCounts, entryFuncsSet, remaining, cur, out,
                    run, hist, reach >>

\* an aggregation that adds the writes to the reads total
AddReportCrossed(o, r) ==
    [TotalEntries |-> o.TotalEntries + r.Entries,
     TotalExits   |-> o.TotalExits + r.Exits,
     TotalReads   |-> o.TotalReads + r.Writes,
     TotalWrites  |-> o.TotalWrites + r.Writes,
     Processes    |-> Append(o.Processes, r)]

\* out.Processes = append(out.Processes, pr); out.TotalX += pr.X
AddReport(o, r) ==
    [TotalEntries |-> o.TotalEntries + r.Entries,
     TotalExits   |-> o.TotalExits + r.Exits,
     TotalReads   |-> o.TotalReads + r.Reads,
     TotalWrites  |-> o.TotalWrites + r.Writes,
     Processes    |-> Append(o.Processes, r)]

\* the traversal loop has ended: the report joins the output
EndEntry ==
    /\ pc \in {"static", "bfs"}
    /\ work = << >>
    /\ out' = AddReport(out, pr)
    /\ reach' = (cur :> visited) @@ reach
    /\ pc' = "loop"
    /\ UNCHANGED << prog, ptrMode, localCounts, entryFuncsSet, remaining, cur, visited,
                    work, pr, run, hist, adds >>

\* the range loop has ended: the output is encoded
Encode ==
    /\ pc = "loop"
    /\ remaining = {}
    /\ pc' = "done"
    /\ hist' = Append(hist, [ptr |-> ptrMode, out |-> out, reach |-> reach])
    /\ UNCHANGED << prog, ptrMode, localCounts, entryFuncsSet, remaining, cur, visited,
                    work, pr, out, run, adds, reach >>

\* the tool is run again on the unchanged program model
Rerun ==
    /\ pc = "done"
    /\ run < MaxRuns
    /\ run' = run + 1
    /\ ptrMode' \in BOOLEAN
    /\ pc' = "scan"
    /\ localCounts' = << >>
    /\ entryFuncsSet' = {}
    /\ remaining' = {}
    /\ cur' = NoFunc
    /\ visited' = {}
    /\ work' = << >>
    /\ pr' = NoReport
    /\ out' = EmptyOutput
    /\ adds' = NoAdds
    /\ reach' = << >>
    /\ UNCHANGED << prog, hist >>

Next ==
    \/ Scan
    \/ NextEntry
    \/ StaticStep
    \/ BfsStep
    \/ EndEntry
    \/ Encode
    \/ Rerun

Spec == Init /\ [][Next]_vars

\* main runs on a single goroutine and nothing blocks it: a loop that can take
\* another iteration takes it, and a finished loop is left
FairSpec ==
    /\ Spec
    /\ WF_vars(StaticStep)
    /\ WF_vars(BfsStep)
    /\ WF_vars(EndEntry)

TypeOK ==
    /\ pc \in {"scan", "loop", "static", "bfs", "done"}
    /\ visited \subseteq Funcs
    /\ remaining \subseteq entryFuncsSet

(* ------------------------------ reference notions ---------------------- *)
RECURSIVE SumOver(_, _)
SumOver(S, f) ==
    IF S = {} THEN 0
    ELSE LET x == CHOOSE y \in S : TRUE IN f[x] + SumOver(S \ {x}, f)

\* direct callee edges of fn: the static callees of its call instructions
StaticEdges(p, fn) == { cs.callee : cs \in Range(Blocks(p, fn)) } \ {NoFunc}

StaticReach(p, fn) == Closure([g \in Funcs |-> StaticEdges(p, g)], {fn})

GraphReach(p, fn) == Closure([g \in Funcs |-> GraphEdges(p, g)], {fn})

\* the reachable set of the traversal in progress
CurReach == IF pc = "bfs" THEN GraphReach(prog, cur) ELSE StaticReach(prog, cur)

CurEdges(fn) == IF pc = "bfs" THEN GraphEdges(prog, fn) ELSE StaticEdges(prog, fn)

\* the traversal of cur has emptied its worklist and its report is about to be appended
TraversalOver == pc \in {"static", "bfs"} /\ work = << >>

Metrics == {"Entries", "Exits", "Reads", "Writes"}

\* what localCounts holds for fn, nothing if it has no entry
Local(fn, X) == IF fn \in DOMAIN localCounts THEN localCounts[fn][X] ELSE 0

\* fn is reached by two call paths (two visited callers, or two call sites) or lies on a cycle
ManyPaths(fn) ==
    \/ Cardinality({ g \in visited : fn \in CurEdges(g) }) >= 2
    \/ \E g \in CurEdges(fn) : fn \in (IF pc = "bfs" THEN GraphReach(prog, g)
                                                     ELSE StaticReach(prog, g))

ReportName(fn) == Path(prog, fn) \o "." \o Name(prog, fn)

\* the report of entry fn in an output
ReportsOf(o, fn) == { i \in DOMAIN o.Processes : o.Processes[i].Name = ReportName(fn) }

ReportOf(o, fn) == o.Processes[CHOOSE i \in ReportsOf(o, fn) : TRUE]

(* ------------------------------ C1 ------------------------------------- *)
\* C1: within the traversal of one entry, under the static DFS and under the
\* whole-program BFS, no function is accumulated twice, and when the traversal
\* is over every function of the entry's reachable set (however many paths or
\* cycles reach it) was accumulated exactly once: functions_included is the
\* size of the reachable set and each metric is the sum of the local counts
\* over it, each taken once.
C1_ExactlyOnce ==
    /\ \A fn \in Funcs : adds[fn] <= 1
    /\ TraversalOver =>
        /\ \A fn \in Funcs : adds[fn] = (IF fn \in CurReach THEN 1 ELSE 0)
        /\ pr.Funcs = Cardinality(CurReach)
        /\ \A X \in Metrics : pr[X] = SumOver(CurReach, [fn \in CurReach |-> Local(fn, X)])

\* a BFS traversal is over (after a static run of the same program) and has
\* accumulated once a function with local counts that two paths or a cycle reach
C1_Witness ==
    /\ run = 2 /\ ~hist[1].ptr
    /\ pc = "bfs" /\ work = << >>
    /\ \E fn \in visited :
        /\ ManyPaths(fn)
        /\ adds[fn] = 1
        /\ \E X \in Metrics : Local(fn, X) > 0

(* ------------------------------ C2 ------------------------------------- *)
\* C2: each total of the Output equals the sum of that metric over the
\* ProcessReports of processes[], in static mode, in whole-program mode and
\* when entries of a whole-program run take the static fallback.
C2_TotalsConsistent ==
    /\ out.TotalEntries = SumOver(DOMAIN out.Processes, [i \in DOMAIN out.Processes |-> out.Processes[i].Entries])
    /\ out.TotalExits = SumOver(DOMAIN out.Processes, [i \in DOMAIN out.Processes |-> out.Processes[i].Exits])
    /\ out.TotalReads = SumOver(DOMAIN out.Processes, [i \in DOMAIN out.Processes |-> out.Processes[i].Reads])
    /\ out.TotalWrites = SumOver(DOMAIN out.Processes, [i \in DOMAIN out.Processes |-> out.Processes[i].Writes])

\* a finished whole-program run in which one entry took the fallback and one
\* the BFS, with reads in two reports
C2_Witness ==
    /\ pc = "done" /\ ptrMode
    /\ \E e \in entryFuncsSet : ~HasNode(prog, e)
    /\ Cardinality({ i \in DOMAIN out.Processes : out.Processes[i].Reads > 0 }) >= 2
    /\ out.TotalReads >= 2

(* ------------------------------ C3 ------------------------------------- *)
\* C3: for every entry, the functions visited in a whole-program run include
\* the functions visited in a static run on the same program, and each of
\* entries, exits, reads, writes and functions_included of the whole-program
\* report is at least the value of the static report.
C3_Superset ==
    \A i, j \in DOMAIN hist :
        (~hist[i].ptr /\ hist[j].ptr) =>
            \A e \in DOMAIN hist[i].reach :
                /\ e \in DOMAIN hist[j].reach
                /\ hist[i].reach[e] \subseteq hist[j].reach[e]
                /\ \A X \in Metrics \cup {"Funcs"} :
                     ReportOf(hist[j].out, e)[X] >= ReportOf(hist[i].out, e)[X]

\* a static and a whole-program run are finished, and for some entry the
\* whole-program run visited more functions and read more
C3_Witness ==
    \E i, j \in DOMAIN hist :
        /\ ~hist[i].ptr /\ hist[j].ptr
        /\ \E e \in DOMAIN hist[i].reach :
            /\ hist[i].reach[e] # hist[j].reach[e]
            /\ ReportOf(hist[j].out, e).Reads > ReportOf(hist[i].out, e).Reads

(* ------------------------------ C4 ------------------------------------- *)
\* C4: two runs on the same program model with the same strategy give the
\* same Output: same totals, same ProcessReports in the same order.
C4_Idempotent ==
    \A i, j \in DOMAIN hist :
        hist[i].ptr = hist[j].ptr => hist[i].out = hist[j].out

(* ------------------------------ C5 ------------------------------------- *)
\* the classified call sites of fn itself, whatever kind of function fn is
OwnSites(fn, X) == ScanCounts(prog, fn)[X]

\* C5: when the traversal of an entry is over, each metric of its report is
\* the sum, over the entry's reachable set, of the function's own call sites
\* classified into that category, for functions of every kind.
C5_ReportCoversReachable ==
    TraversalOver =>
        \A X \in Metrics :
            pr[X] = SumOver(CurReach, [fn \in CurReach |-> OwnSites(fn, X)])

(* ------------------------------ C6 ------------------------------------- *)
\* main calls os.Open, fmt.Printf and os.Exit; no other function has a call
MainOnlyProgram ==
    prog.body = [fn \in Internal |-> IF fn = 1 THEN SubSeq(LibMenu, 1, 3) ELSE << >>]

\* C6: in static mode the program whose main makes one file-open read, one
\* formatted write and one process exit yields the single report
\* entries=1, reads=1, writes=1, exits=1, functions_included=1.
C6_MainOnlyReport ==
    (MainOnlyProgram /\ ~ptrMode /\ pc = "done") =>
        out.Processes =
            << [Name |-> "main.main", Source |-> "main.main", Entries |-> 1, Exits |-> 1,
                Reads |-> 1, Writes |-> 1, Funcs |-> 1] >>

(* ------------------------------ C7 ------------------------------------- *)
\* main registers handler h with http.HandleFunc, h makes one sql Query
HandlerProgram(h) ==
    prog.body = [fn \in Internal |->
                    IF fn = 1 THEN << HandleFuncCall("Call", Ref(AnonFuncs, h)) >>
                    ELSE IF fn = h
                         THEN << StaticCall("Call", LibFunc("database/sql", "Query"),
                                            <<OtherValue>>) >>
                         ELSE << >>]

\* C7: under either strategy, main registering a handler that makes one
\* database query yields two reports, one for main and one for the handler,
\* and the handler's report has reads=1.
C7_HandlerReport ==
    \A h \in Internal \ {1} :
        (HandlerProgram(h) /\ pc = "done") =>
            /\ Len(out.Processes) = 2
            /\ ReportsOf(out, 1) # {}
            /\ ReportsOf(out, h) # {}
            /\ ReportOf(out, h).Reads = 1

(* ------------------------------ C8 ------------------------------------- *)
\* the dynamic call sites of fn and what the call graph resolves them to
DynamicTargets(fn) ==
    UNION { cs.targets : cs \in { c \in Range(Blocks(prog, fn)) : c.callee = NoFunc } }

Discoveries ==
    { <<fn, 0, 0>> : fn \in { f \in Members(prog) : IsMainMain(prog, f) } }
    \cup { d \in Members(prog) \X (1 .. MaxSites) \X (1 .. 2) :
            /\ d[2] \in DOMAIN Blocks(prog, d[1])
            /\ isRegistrationFunction(prog, Blocks(prog, d[1])[d[2]].callee)
            /\ d[3] \in DOMAIN Blocks(prog, d[1])[d[2]].args
            /\ Blocks(prog, d[1])[d[2]].args[d[3]].vk \in {"Function", "MakeClosure"} }

Discovered(d) == IF d[2] = 0 THEN d[1] ELSE Blocks(prog, d[1])[d[2]].args[d[3]].fn

\* C9: however often a function is discovered as an entry, it is in the entry
\* set once and the Output has exactly one report for it: the number of
\* reports is the number of distinct entry functions.
C9_OneReportPerEntry ==
    pc = "done" =>
        /\ entryFuncsSet = { Discovered(d) : d \in Discoveries }
        /\ Len(out.Processes) = Cardinality({ Discovered(d) : d \in Discoveries })
        /\ \A fn \in entryFuncsSet : Cardinality(ReportsOf(out, fn)) = 1

\* a finished run with an entry discovered twice from different functions
\* and another entry
C9_Witness ==
    /\ pc = "done"
    /\ \E d1, d2 \in Discoveries :
        /\ d1[1] # d2[1]
        /\ Discovered(d1) = Discovered(d2)
    /\ Len(out.Processes) >= 2

(* ------------------------------ C10 ------------------------------------ *)
\* C10: in a whole-program run, an entry without a call graph node gets the
\* report a static run computes for it, and an entry with a node is traversed
\* over the call graph edges.
C10_FallbackPerEntry ==
    /\ \A i, j \in DOMAIN hist :
        (~hist[i].ptr /\ hist[j].ptr) =>
            \A e \in DOMAIN hist[j].reach :
                e \notin CGNodes(prog) =>
                    ReportOf(hist[j].out, e) = ReportOf(hist[i].out, e)
    /\ \A j \in DOMAIN hist :
        hist[j].ptr =>
            \A e \in DOMAIN hist[j].reach :
                e \in CGNodes(prog) => hist[j].reach[e] = GraphReach(prog, e)

\* a static and a whole-program run are finished; one entry has no node and
\* a report with reads, another has a node and reached more than statically
C10_Witness ==
    \E i, j \in DOMAIN hist :
        /\ ~hist[i].ptr /\ hist[j].ptr
        /\ \E e \in DOMAIN hist[j].reach :
            /\ e \notin CGNodes(prog)
            /\ ReportOf(hist[j].out, e).Reads > 0
        /\ \E e \in DOMAIN hist[j].reach :
            /\ e \in CGNodes(prog)
            /\ hist[j].reach[e] # hist[i].reach[e]

(* ------------------------------ C11 ------------------------------------ *)
\* an iteration of the loop of the traversal in progress
LoopIteration == pc \in {"static", "bfs"} /\ work # << >> /\ pc' = pc

\* C11: on every program, recursive ones included, the static DFS and the
\* whole-program BFS of an entry end with an empty worklist: an iteration
\* either adds a function to the visited set or shortens the worklist, never
\* removes from the visited set and never accumulates a visited function, and
\* a traversal that has started reaches the empty stack or queue.
C11_Terminates ==
    /\ [][LoopIteration =>
            /\ visited \subseteq visited'
            /\ visited' = visited => Len(work') < Len(work)
            /\ \A fn \in Funcs : adds'[fn] # adds[fn] => fn \notin visited]_vars
    /\ (pc \in {"static", "bfs"}) ~> (work = << >>)

\* the traversal of an entry is over and has visited two functions that call
\* each other
C11_Witness ==
    /\ TraversalOver
    /\ \E f, g \in visited :
        /\ f # g
        /\ g \in CurEdges(f)
        /\ f \in CurEdges(g)

(* ------------------------------ C12 ------------------------------------ *)
\* the call instructions of fn (Call, Defer or Go) whose static callee is a
\* registration function
RegistrationSites(fn) ==
    { i \in DOMAIN Blocks(prog, fn) :
        /\ Blocks(prog, fn)[i].kind \in {"Call", "Defer", "Go"}
        /\ isRegistrationFunction(prog, Blocks(prog, fn)[i].callee) }

\* the functions that arguments of registration calls refer to, directly or
\* as a closure
HandlerArguments ==
    { Blocks(prog, d[1])[d[2]].args[d[3]].fn :
        d \in { e \in Internal \X (1 .. MaxSites) \X (1 .. 2) :
                  /\ e[2] \in RegistrationSites(e[1])
                  /\ e[3] \in DOMAIN Blocks(prog, e[1])[e[2]].args
                  /\ Blocks(prog, e[1])[e[2]].args[e[3]].vk \in {"Function", "MakeClosure"} } }

\* C12: once the scan is done, the local Entries count of every function is
\* the number of its call instructions (Call, Defer, Go) with a registration
\* callee, one for each whether or not an argument is a handler, and the
\* entry set holds nothing but main.main and the functions that arguments of
\* registration calls refer to.
C12_RegistrationCounts ==
    pc # "scan" =>
        /\ \A fn \in Internal :
            RegistrationSites(fn) # {} =>
                Local(fn, "Entries") = Cardinality(RegistrationSites(fn))
        /\ entryFuncsSet \subseteq { fn \in Internal : IsMainMain(prog, fn) } \cup HandlerArguments

====
